---- MODULE Spec2Model ----
(***************************************************************************)
(* A model of src/main.py: the IOHandler class, which reflects values      *)
(* between the input widgets of a Qt window (the widget container) and a   *)
(* plain object (the data holder, IOHandler.inputs).                       *)
(*                                                                         *)
(* Python values are pairs <<type, literal>>; the object heap is a         *)
(* sequence of objects, and a reference is an index into it.  A __dict__   *)
(* that the code iterates is a sequence in insertion order; the data       *)
(* holder's __dict__, which is only looked up by name, is a function from  *)
(* names to values, NoAttr marking a name the object has no attribute of.  *)
(*                                                                         *)
(* The toolkit's accessors are not code of the repository.  They are       *)
(* modelled by the contract main.py relies on: a read accessor returns the *)
(* widget's current value, a write accessor takes one argument of the      *)
(* widget's type and raises TypeError for any other (main.py:100-101).     *)
(***************************************************************************)
EXTENDS Integers, Sequences, FiniteSets, TLC

\* ------------------------------------------------------------------ bounds

\* Most attributes a widget container holds when the IOHandler is built.
MaxAttrs == 2

\* ----------------------------------------------------------- Python values

Str(s) == <<"str", s>>
PyInt(s) == <<"int", s>>
PyBool(s) == <<"bool", s>>
\* The value slot of an object that is no input widget.
NoVal == <<"NoneType", "None">>

TypeOf(v) == v[1]

\* Strings that are Python integer literals.
IntLiterals == {"3", "5"}
\* Strings that are Python boolean literals.
BoolLiterals == {"True", "False"}

\* The builtin eval() as main.py:102 uses it: a non-string argument is a
\* TypeError, a literal evaluates to its value, and any other string of the
\* model is a bare identifier that is not defined (NameError).
Eval(v) ==
    IF TypeOf(v) # "str"
    THEN [ok |-> FALSE, exc |-> "TypeError", val |-> NoVal]
    ELSE IF v[2] \in BoolLiterals
    THEN [ok |-> TRUE, exc |-> "none", val |-> PyBool(v[2])]
    ELSE IF v[2] \in IntLiterals
    THEN [ok |-> TRUE, exc |-> "none", val |-> PyInt(v[2])]
    ELSE [ok |-> FALSE, exc |-> "NameError", val |-> NoVal]

\* Values a caller stores in the data holder: strings as a settings file
\* gives them back, and typed values.
CallerVals == {Str("bob"), Str("True"), Str("5"), PyInt("5"), PyBool("True")}

\* --------------------------------------------------------- classes, widgets

Class(n, b) == [name |-> n, base |-> b]
QLineEdit == Class("QLineEdit", "QWidget")
QComboBox == Class("QComboBox", "QWidget")
QSpinBox == Class("QSpinBox", "QAbstractSpinBox")
QCheckBox == Class("QCheckBox", "QAbstractButton")
\* A widget kind outside the four, and a subclass of one of the four.
QLabel == Class("QLabel", "QFrame")
MySpinBox == Class("MySpinBox", "QSpinBox")

Classes == {QLineEdit, QComboBox, QSpinBox, QCheckBox, QLabel, MySpinBox}

\* IOHandler.input_types: type name -> <<read accessor, write accessor>>.
input_types ==
    [n \in {"QLineEdit", "QComboBox", "QSpinBox", "QCheckBox"} |->
        CASE n = "QLineEdit" -> <<"text", "setText">>
          [] n = "QComboBox" -> <<"currentText", "setCurrentText">>
          [] n = "QSpinBox" -> <<"value", "setValue">>
          [] n = "QCheckBox" -> <<"isChecked", "setChecked">>]

\* The Qt kind whose accessors an object of class c has (a subclass inherits).
KindOf(c) == IF c.name \in DOMAIN input_types THEN c.name
             ELSE IF c.base \in DOMAIN input_types THEN c.base
             ELSE "none"

\* The Python type a kind's value has, and its write accessor takes.
ValueType(kind) ==
    CASE kind \in {"QLineEdit", "QComboBox"} -> "str"
      [] kind = "QSpinBox" -> "int"
      [] kind = "QCheckBox" -> "bool"
      [] OTHER -> "NoneType"

\* Values a widget of class c may show when the IOHandler is built.
InitVals(c) ==
    CASE KindOf(c) \in {"QLineEdit", "QComboBox"} -> {Str("bob"), Str("True")}
      [] KindOf(c) = "QSpinBox" -> {PyInt("3"), PyInt("5")}
      [] KindOf(c) = "QCheckBox" -> {PyBool("False"), PyBool("True")}
      [] OTHER -> {NoVal}

\* getattr(item, method) finds the method: it is an accessor of item's kind.
HasMethod(o, method) ==
    /\ KindOf(o.cls) # "none"
    /\ method \in {input_types[KindOf(o.cls)][1], input_types[KindOf(o.cls)][2]}

\* The write accessor takes v: v has the widget's type.
Accepts(o, v) == TypeOf(v) = ValueType(KindOf(o.cls))

\* ------------------------------------------------------------------- names

Letters == <<"a", "b", "c", "d", "e">>
\* An attribute name is a non-empty sequence of characters.  The i-th
\* attribute of a container is named by the i-th letter, with or without a
\* leading underscore: names matter to the code only by their first
\* character and by equality.
Name(i, private) == IF private THEN <<"_", Letters[i]>> ELSE <<Letters[i]>>
PublicNames == {Name(i, FALSE) : i \in 1..MaxAttrs}
AttrNames == {Name(i, p) : i \in 1..MaxAttrs, p \in BOOLEAN}
NoKey == <<>>

\* ------------------------------------------------------------------- state

VARIABLES
    pc,         \* "new": no IOHandler yet; "ready": constructed
    objs,       \* the heap: objs[r] = [cls, val] for reference r
    gui,        \* the container's __dict__: a sequence of [key, item]
    inputs,     \* the data holder's __dict__: name -> value
    own_inputs, \* the holder is the Inputs object __init__ made itself
    func_dict,  \* the table: a sequence of [key, get, set, item]
    last        \* the last operation: its name, the accessor calls it
                \* made, the exception it raised; for fields_to_inputs the
                \* heap it started from, for inputs_to_fields whether it
                \* followed a fields_to_inputs directly

vars == <<pc, objs, gui, inputs, own_inputs, func_dict, last>>

NoErr == [exc |-> "none", key |-> NoKey, val |-> NoVal, at |-> 0]
Raise(e, k, v, i) == [exc |-> e, key |-> k, val |-> v, at |-> i]
Op(op, log, err, pre, after_read) ==
    [op |-> op, log |-> log, err |-> err, pre |-> pre, after_read |-> after_read]
Done(op) == Op(op, <<>>, NoErr, <<>>, FALSE)

\* One accessor call: the entry it was made for, the object, the method, the
\* argument (NoVal for a read) and whether the accessor took it.
Call(i, r, m, v, ok) == [entry |-> i, item |-> r, method |-> m, arg |-> v, ok |-> ok]

\* An object without attributes; hasattr, getattr and setattr on a __dict__.
NoAttr == <<"no attribute", "">>
EmptyObject == [n \in PublicNames |-> NoAttr]
HasAttr(d, name) == name \in DOMAIN d /\ d[name] # NoAttr
SetAttr(d, name, v) == [n \in DOMAIN d \cup {name} |-> IF n = name THEN v ELSE d[n]]

\* Containers of n attributes whose classes are among cs and whose names
\* are private or not as ps allows: attribute i refers to object i, and no
\* two attributes to the same object.
Heaps(n, cs) ==
    {h \in [1..n -> [cls : cs, val : {NoVal} \cup UNION {InitVals(c) : c \in cs}]] :
        \A i \in 1..n : h[i].val \in InitVals(h[i].cls)}
Dicts(n, ps) ==
    {[i \in 1..n |-> [key |-> Name(i, p[i]), item |-> i]] : p \in [1..n -> ps]}

Start(cs, ps) ==
    /\ pc = "new"
    /\ \E n \in 0..MaxAttrs :
        /\ objs \in Heaps(n, cs)
        /\ gui \in Dicts(n, ps)
    /\ inputs = EmptyObject
    /\ own_inputs = FALSE
    /\ func_dict = <<>>
    /\ last = Done("none")

\* The four kinds the IOHandler supports.
Supported == {QLineEdit, QComboBox, QSpinBox, QCheckBox}

\* Containers in which every attribute is a supported widget under a public
\* name: the containers the two bulk operations are checked on.
Init == Start(Supported, {FALSE})

\* Containers of widgets of every class under public and private names: the
\* containers the construction is checked on.
InitBuild == Start(Classes, BOOLEAN)

\* Containers the caller's later changes are checked on.
InitEdit == Start({QLineEdit, QCheckBox, QLabel}, BOOLEAN)

\* ------------------------------------------------------------ construction

\* _check_type with isinstance in place of the type's name: a subclass of a
\* kind passes for the kind.
_check_type_isinstance(type_arg, item_arg) == KindOf(objs[item_arg].cls) = type_arg

\* _check_type: the exact name of the object's runtime type is type_arg.
_check_type(type_arg, item_arg) == objs[item_arg].cls.name = type_arg

\* The dispatch with the QComboBox branch left as a copy of the QLineEdit one.
Dispatch_CopyPaste(item) ==
    IF _check_type("QLineEdit", item) THEN <<"text", "setText">>
    ELSE IF _check_type("QComboBox", item) THEN <<"text", "setText">>
    ELSE IF _check_type("QSpinBox", item) THEN <<"value", "setValue">>
    ELSE IF _check_type("QCheckBox", item) THEN <<"isChecked", "setChecked">>
    ELSE <<>>

\* The loop body's dispatch (main.py:113-122): the accessor pair of the
\* first kind whose name the type has, <<>> when it has none of them.
Dispatch(item) ==
    IF _check_type("QLineEdit", item) THEN <<"text", "setText">>
    ELSE IF _check_type("QComboBox", item) THEN <<"currentText", "setCurrentText">>
    ELSE IF _check_type("QSpinBox", item) THEN <<"value", "setValue">>
    ELSE IF _check_type("QCheckBox", item) THEN <<"isChecked", "setChecked">>
    ELSE <<>>

\* key[0] == "_": the attribute is skipped.
IsProtected(key) == key[1] = "_"

\* _connect_gui: the table after the loop has seen the attributes from the
\* i-th on, fd being the table so far.
RECURSIVE _connect_gui(_, _)
_connect_gui(i, fd) ==
    IF i > Len(gui) THEN fd
    ELSE LET key == gui[i].key
             item == gui[i].item
         IN IF IsProtected(key) \/ Dispatch(item) = <<>>
            THEN _connect_gui(i + 1, fd)
            ELSE _connect_gui(i + 1,
                    Append(fd, [key |-> key, get |-> Dispatch(item)[1],
                                set |-> Dispatch(item)[2], item |-> item]))

\* Data holders a caller passes to IOHandler(QtWindow, input_object).
GivenHolders ==
    {EmptyObject} \cup {[n \in PublicNames |-> v] : v \in {Str("True"), Str("5")}}

\* A constructor that also copies the widgets' values into the holder, as
\* the docstring of _connect_gui reads.
Construct_Populate ==
    /\ pc = "new"
    /\ \E given \in BOOLEAN : \E base \in (IF given THEN GivenHolders ELSE {EmptyObject}) :
        /\ own_inputs' = ~given
        /\ inputs' = [n \in PublicNames |->
              IF \E i \in 1..Len(gui) : gui[i].key = n /\ Dispatch(gui[i].item) # <<>>
              THEN objs[gui[CHOOSE i \in 1..Len(gui) : gui[i].key = n].item].val
              ELSE base[n]]
    /\ func_dict' = _connect_gui(1, <<>>)
    /\ pc' = "ready"
    /\ last' = Done("construct")
    /\ UNCHANGED <<objs, gui>>

\* IOHandler.__init__ with input_object None (a fresh Inputs object) or given.
Construct ==
    /\ pc = "new"
    /\ \E given \in BOOLEAN :
        /\ own_inputs' = ~given
        /\ IF given THEN inputs' \in GivenHolders ELSE inputs' = EmptyObject
    /\ func_dict' = _connect_gui(1, <<>>)
    /\ pc' = "ready"
    /\ last' = Done("construct")
    /\ UNCHANGED <<objs, gui>>

\* ------------------------------------------------------ the bulk operations

\* The outcome of a bulk operation over the table from entry i on: the heap,
\* the holder, the calls made and the exception that ended it.
Outcome(h, d, log, err) == [objs |-> h, inputs |-> d, log |-> log, err |-> err]

\* The item looked up in the container by the key when the operation runs.
Entry_Live(i) ==
    IF \E k \in 1..Len(gui) : gui[k].key = func_dict[i].key
    THEN [func_dict[i] EXCEPT
            !.item = gui[CHOOSE k \in 1..Len(gui) : gui[k].key = func_dict[i].key].item]
    ELSE func_dict[i]

\* The key and the item the comprehension hands to connect for the i-th
\* value of input_field_dict: those stored when the table was built.
Entry(i) == func_dict[i]

\* The read with the item bound late: every entry reads the last widget.
ReadEntry_LateBound(i, st) ==
    LET e == Entry(i)
        o == st.objs[Entry(Len(func_dict)).item]
    IN Outcome(st.objs, SetAttr(st.inputs, e.key, o.val),
               Append(st.log, Call(i, e.item, e.get, NoVal, TRUE)), NoErr)

\* _connect_func(False, ...): setattr(inputs, key, getattr(item, get)()).
ReadEntry(i, st) ==
    LET e == Entry(i)
        o == st.objs[e.item]
    IN IF ~HasMethod(o, e.get)
       THEN Outcome(st.objs, st.inputs, st.log, Raise("AttributeError", NoKey, NoVal, i))
       ELSE Outcome(st.objs, SetAttr(st.inputs, e.key, o.val),
                    Append(st.log, Call(i, e.item, e.get, NoVal, TRUE)), NoErr)

\* The write accessor called with v: the widget holds v, or TypeError.
SetCall(i, st, v) ==
    LET e == Entry(i)
        o == st.objs[e.item]
    IN IF ~HasMethod(o, e.set)
       THEN Outcome(st.objs, st.inputs, st.log, Raise("AttributeError", NoKey, NoVal, i))
       ELSE IF Accepts(o, v)
       THEN Outcome([st.objs EXCEPT ![e.item].val = v], st.inputs,
                    Append(st.log, Call(i, e.item, e.set, v, TRUE)), NoErr)
       ELSE Outcome(st.objs, st.inputs,
                    Append(st.log, Call(i, e.item, e.set, v, FALSE)),
                    Raise("TypeError", NoKey, NoVal, i))

\* The write with the attribute evaluated before the first attempt.
WriteEntry_EvalFirst(i, st) ==
    LET e == Entry(i)
    IN IF ~HasAttr(st.inputs, e.key)
       THEN Outcome(st.objs, st.inputs, st.log, Raise("AttributeError", e.key, NoVal, i))
       ELSE LET ev == Eval(st.inputs[e.key])
            IN IF ~ev.ok
               THEN Outcome(st.objs, st.inputs, st.log, Raise(ev.exc, NoKey, NoVal, i))
               ELSE SetCall(i, st, ev.val)

\* The write without the second attempt.
WriteEntry_NoRetry(i, st) ==
    LET e == Entry(i)
    IN IF ~HasAttr(st.inputs, e.key)
       THEN Outcome(st.objs, st.inputs, st.log, Raise("AttributeError", e.key, NoVal, i))
       ELSE SetCall(i, st, st.inputs[e.key])

\* The write whose failed second attempt is reported as a TypeError naming
\* the key and the value.
WriteEntry_Wrapped(i, st) ==
    LET e == Entry(i)
    IN IF ~HasAttr(st.inputs, e.key)
       THEN Outcome(st.objs, st.inputs, st.log, Raise("AttributeError", e.key, NoVal, i))
       ELSE LET v == st.inputs[e.key]
                first == SetCall(i, st, v)
                ev == Eval(v)
                second == IF ev.ok THEN SetCall(i, [first EXCEPT !.err = NoErr], ev.val)
                          ELSE first
            IN IF first.err.exc # "TypeError" THEN first
               ELSE IF second.err.exc = "none" THEN second
               ELSE [second EXCEPT !.err = Raise("TypeError", e.key, v, i)]

\* The write that stores the evaluated value back in the holder.
WriteEntry_StoreBack(i, st) ==
    LET e == Entry(i)
    IN IF ~HasAttr(st.inputs, e.key)
       THEN Outcome(st.objs, st.inputs, st.log, Raise("AttributeError", e.key, NoVal, i))
       ELSE LET v == st.inputs[e.key]
                first == SetCall(i, st, v)
                ev == Eval(v)
            IN IF first.err.exc # "TypeError" THEN first
               ELSE IF ~ev.ok
               THEN [first EXCEPT !.err =
                        Raise(ev.exc, NoKey, IF ev.exc = "NameError" THEN v ELSE NoVal, i)]
               ELSE SetCall(i, [first EXCEPT !.err = NoErr,
                                             !.inputs = SetAttr(first.inputs, e.key, ev.val)],
                            ev.val)

\* _connect_func(True, ...): the write accessor with the holder's attribute;
\* on TypeError, once more with the attribute evaluated.
WriteEntry(i, st) ==
    LET e == Entry(i)
    IN IF ~HasAttr(st.inputs, e.key)
       THEN Outcome(st.objs, st.inputs, st.log, Raise("AttributeError", e.key, NoVal, i))
       ELSE LET v == st.inputs[e.key]
                first == SetCall(i, st, v)
            IN IF first.err.exc # "TypeError" THEN first
               ELSE LET ev == Eval(v)
                    IN IF ~ev.ok
                       THEN [first EXCEPT !.err =
                                Raise(ev.exc, NoKey,
                                      IF ev.exc = "NameError" THEN v ELSE NoVal, i)]
                       ELSE SetCall(i, [first EXCEPT !.err = NoErr], ev.val)

\* The loop with every entry in a try of its own: it goes on after an
\* exception and reports the first.
RECURSIVE Bulk_Isolated(_, _, _)
Bulk_Isolated(reverse, i, st) ==
    IF i > Len(func_dict) THEN st
    ELSE LET clean == [st EXCEPT !.err = NoErr]
             next == IF reverse THEN WriteEntry(i, clean) ELSE ReadEntry(i, clean)
         IN Bulk_Isolated(reverse, i + 1,
                IF st.err.exc # "none" THEN [next EXCEPT !.err = st.err] ELSE next)

\* The list comprehension over input_field_dict.values(): entry after entry,
\* until one raises.
RECURSIVE Bulk(_, _, _)
Bulk(reverse, i, st) ==
    IF i > Len(func_dict) \/ st.err.exc # "none" THEN st
    ELSE Bulk(reverse, i + 1, IF reverse THEN WriteEntry(i, st) ELSE ReadEntry(i, st))

Run(reverse) == Bulk(reverse, 1, Outcome(objs, inputs, <<>>, NoErr))

fields_to_inputs ==
    /\ pc = "ready"
    /\ \E r \in {Run(FALSE)} :
          /\ objs' = r.objs
          /\ inputs' = r.inputs
          /\ last' = Op("fields_to_inputs", r.log, r.err, objs, FALSE)
    /\ UNCHANGED <<pc, gui, own_inputs, func_dict>>

inputs_to_fields ==
    /\ pc = "ready"
    /\ \E r \in {Run(TRUE)} :
          /\ objs' = r.objs
          /\ inputs' = r.inputs
          /\ last' = Op("inputs_to_fields", r.log, r.err, <<>>, last.op = "fields_to_inputs")
    /\ UNCHANGED <<pc, gui, own_inputs, func_dict>>

\* ---------------------------------------------------------- the environment

\* The caller assigns an attribute of IOHandler.inputs.
SetField ==
    /\ pc = "ready"
    /\ \E n \in PublicNames, v \in CallerVals :
        /\ inputs[n] # v
        /\ inputs' = SetAttr(inputs, n, v)
    /\ last' = Done("caller")
    /\ UNCHANGED <<pc, objs, gui, own_inputs, func_dict>>

\* Most objects the heap holds: the container's and one made later.
MaxObjs == MaxAttrs + 1

GuiNames == {gui[i].key : i \in 1..Len(gui)}
NewWidget == [cls |-> QLineEdit, val |-> Str("True")]

\* The caller gives the container one more attribute, a new input widget.
GuiAdd ==
    /\ pc = "ready"
    /\ Len(gui) < MaxAttrs
    /\ Len(objs) < MaxObjs
    /\ \E n \in PublicNames \ GuiNames :
        /\ objs' = Append(objs, NewWidget)
        /\ gui' = Append(gui, [key |-> n, item |-> Len(objs) + 1])
    /\ last' = Done("caller")
    /\ UNCHANGED <<pc, inputs, own_inputs, func_dict>>

\* The caller deletes an attribute of the container.
GuiRemove ==
    /\ pc = "ready"
    /\ \E i \in 1..Len(gui) :
        gui' = [k \in 1..(Len(gui) - 1) |-> IF k < i THEN gui[k] ELSE gui[k + 1]]
    /\ last' = Done("caller")
    /\ UNCHANGED <<pc, objs, inputs, own_inputs, func_dict>>

\* The caller binds an attribute of the container to another, new widget.
GuiRebind ==
    /\ pc = "ready"
    /\ Len(objs) < MaxObjs
    /\ \E i \in 1..Len(gui) :
        /\ objs' = Append(objs, NewWidget)
        /\ gui' = [gui EXCEPT ![i].item = Len(objs) + 1]
    /\ last' = Done("caller")
    /\ UNCHANGED <<pc, inputs, own_inputs, func_dict>>

\* The IOHandler and the caller's assignments to the data holder.
Next ==
    \/ Construct
    \/ fields_to_inputs
    \/ inputs_to_fields
    \/ SetField

Spec == Init /\ [][Next]_vars

\* The IOHandler alone.
NextBuild ==
    \/ Construct
    \/ fields_to_inputs
    \/ inputs_to_fields

SpecBuild == InitBuild /\ [][NextBuild]_vars

\* The IOHandler and the caller's changes to the widget container.
NextEdit ==
    \/ Construct
    \/ fields_to_inputs
    \/ inputs_to_fields
    \/ GuiAdd
    \/ GuiRemove
    \/ GuiRebind

SpecEdit == InitEdit /\ [][NextEdit]_vars

\* ------------------------------------------------------------ the claims

N == Len(func_dict)
Keys == {func_dict[i].key : i \in 1..N}
TableItems == {func_dict[i].item : i \in 1..N}
KeyOf(i) == func_dict[i].key
WidgetOf(h, i) == h[func_dict[i].item]
Reads == last.op = "fields_to_inputs"
Writes == last.op = "inputs_to_fields"
\* The calls the last operation made for entry i, in order.
CallsFor(i) == SelectSeq(last.log, LAMBDA c : c.entry = i)
\* The last operation got as far as entry i.
Reached(i) == last.err.at = 0 \/ i <= last.err.at
\* The holder's value for entry i is a string the write accessor rejects and
\* that evaluates to a value the accessor takes.
Coercible(i) ==
    /\ HasAttr(inputs, KeyOf(i))
    /\ TypeOf(inputs[KeyOf(i)]) = "str"
    /\ ~Accepts(WidgetOf(objs, i), inputs[KeyOf(i)])
    /\ Eval(inputs[KeyOf(i)]).ok
    /\ Accepts(WidgetOf(objs, i), Eval(inputs[KeyOf(i)]).val)
\* The value a successful write of v leaves in widget o.
Written(o, v) == IF Accepts(o, v) THEN v ELSE Eval(v).val

\* C1: a fields_to_inputs() directly followed by an inputs_to_fields() ends
\* without an exception and leaves every widget of the table holding the
\* value it held before the fields_to_inputs().
C1_RoundTrip ==
    [][(Reads /\ last'.op = "inputs_to_fields") =>
        /\ last'.err = NoErr
        /\ \A i \in 1..N : WidgetOf(objs', i).val = WidgetOf(last.pre, i).val]_vars

C1_Witness ==
    /\ Writes /\ last.after_read /\ last.err = NoErr
    /\ N >= 2 /\ Len(last.log) = N
    /\ WidgetOf(objs, 1).cls # WidgetOf(objs, 2).cls

\* C2: after fields_to_inputs() no exception was raised, every entry of the
\* table was read exactly once, in order, through the read accessor of its
\* widget's kind, and the holder has under the entry's name the value the
\* widget holds.
C2_FieldsToInputs ==
    Reads =>
        /\ last.err = NoErr
        /\ Len(last.log) = N
        /\ \A i \in 1..N :
            /\ last.log[i] = Call(i, func_dict[i].item,
                                  input_types[WidgetOf(objs, i).cls.name][1], NoVal, TRUE)
            /\ HasAttr(inputs, KeyOf(i))
            /\ inputs[KeyOf(i)] = WidgetOf(objs, i).val

C2_Witness ==
    /\ Reads /\ N >= 2
    /\ WidgetOf(objs, 1).cls = QComboBox
    /\ WidgetOf(objs, 2).cls = QSpinBox
    /\ inputs[KeyOf(1)] = Str("True") /\ inputs[KeyOf(2)] = PyInt("3")

\* C3: when the holder has an attribute for every entry and each is of the
\* type the widget's write accessor takes, then after inputs_to_fields()
\* every widget of the table holds the holder's value, written by one call
\* of the write accessor of its kind, and no exception was raised.
AllDirect ==
    \A i \in 1..N : /\ HasAttr(inputs, KeyOf(i))
                    /\ Accepts(WidgetOf(objs, i), inputs[KeyOf(i)])

C3_InputsToFields ==
    (Writes /\ AllDirect) =>
        /\ last.err = NoErr
        /\ Len(last.log) = N
        /\ \A i \in 1..N :
            /\ WidgetOf(objs, i).val = inputs[KeyOf(i)]
            /\ last.log[i] = Call(i, func_dict[i].item,
                                  input_types[WidgetOf(objs, i).cls.name][2],
                                  inputs[KeyOf(i)], TRUE)

C3_Witness ==
    /\ Writes /\ AllDirect /\ ~last.after_read /\ N = 2
    /\ WidgetOf(objs, 1) = [cls |-> QLineEdit, val |-> Str("bob")]
    /\ WidgetOf(objs, 2) = [cls |-> QSpinBox, val |-> PyInt("5")]

\* C4: when inputs_to_fields() comes to an entry the holder has no attribute
\* for (no entry before it having raised), it raises the missing-attribute
\* error naming that entry's key and stops there: the widgets of the entries
\* after it are as they were, those of the entries before it hold the values
\* written to them.
C4_MissingField ==
    [][last'.op = "inputs_to_fields" =>
        \A i \in 1..N :
            (~HasAttr(inputs, KeyOf(i)) /\ last'.err.at \notin 1..(i - 1)) =>
                /\ last'.err = Raise("AttributeError", KeyOf(i), NoVal, i)
                /\ \A j \in (i + 1)..N : WidgetOf(objs', j) = WidgetOf(objs, j)
                /\ \A j \in 1..(i - 1) :
                    WidgetOf(objs', j).val = Written(WidgetOf(objs, j), inputs[KeyOf(j)])
                /\ \A k \in 1..Len(last'.log) : last'.log[k].entry < i]_vars

C4_Witness ==
    /\ Writes /\ N = 2
    /\ last.err = Raise("AttributeError", KeyOf(1), NoVal, 1)
    /\ HasAttr(inputs, KeyOf(2))
    /\ Accepts(WidgetOf(objs, 2), inputs[KeyOf(2)])
    /\ WidgetOf(objs, 2).val # inputs[KeyOf(2)]

\* C5: for an entry inputs_to_fields() came to whose holder value is a
\* string the write accessor rejects and that evaluates to a value of the
\* widget's type, no exception is raised at that entry, the widget holds the
\* evaluated value, and the write accessor was called twice: once with the
\* string, rejected, and once with the evaluated value.
C5_CoercionFallback ==
    Writes =>
        \A i \in 1..N :
            (Reached(i) /\ Coercible(i)) =>
                /\ last.err.at # i
                /\ WidgetOf(objs, i).val = Eval(inputs[KeyOf(i)]).val
                /\ CallsFor(i) =
                    <<Call(i, func_dict[i].item, func_dict[i].set, inputs[KeyOf(i)], FALSE),
                      Call(i, func_dict[i].item, func_dict[i].set,
                           Eval(inputs[KeyOf(i)]).val, TRUE)>>

C5_Witness ==
    /\ Writes /\ N = 2 /\ last.err = NoErr
    /\ Coercible(1) /\ Coercible(2)
    /\ WidgetOf(objs, 1) = [cls |-> QCheckBox, val |-> PyBool("True")]
    /\ WidgetOf(objs, 2) = [cls |-> QSpinBox, val |-> PyInt("5")]

\* The entry inputs_to_fields() stopped at had its direct write rejected and
\* its second attempt failed.
RetryFailed(i) ==
    /\ Writes
    /\ last.err.at = i
    /\ HasAttr(inputs, KeyOf(i))
    /\ ~Accepts(WidgetOf(objs, i), inputs[KeyOf(i)])

\* C6 as claimed: when the direct write is rejected and the second attempt
\* fails too, the exception that reaches the caller is a type-mismatch error
\* naming the widget and the offending value.
C6_Original ==
    \A i \in 1..N :
        RetryFailed(i) =>
            last.err = Raise("TypeError", KeyOf(i), inputs[KeyOf(i)], i)

\* C6 as amended: the exception that reaches the caller is the second
\* attempt's own and names no widget: the evaluation's (NameError for a
\* string that does not evaluate, TypeError for a value that is no string)
\* or the write accessor's TypeError for an evaluated value of the wrong
\* type.
C6_FailedRetry ==
    \A i \in 1..N :
        RetryFailed(i) =>
            /\ last.err.key = NoKey
            /\ last.err.exc =
                IF TypeOf(inputs[KeyOf(i)]) = "str" /\ ~Eval(inputs[KeyOf(i)]).ok
                THEN "NameError" ELSE "TypeError"
            /\ (last.err.exc = "TypeError" => last.err.val = NoVal)

C6_Witness ==
    /\ N = 2
    /\ RetryFailed(2)
    /\ inputs[KeyOf(2)] = Str("bob")
    /\ last.err.exc = "NameError"

\* C7: once built, the table's keys are exactly the container's attribute
\* names that do not start with "_" and whose value's type has the name of
\* one of the four kinds; each entry refers to the attribute's object and
\* carries the accessor pair of that kind; the construction raises nothing.
ExpectedKeys ==
    {gui[i].key : i \in {k \in 1..Len(gui) :
        /\ gui[k].key[1] # "_"
        /\ objs[gui[k].item].cls.name \in DOMAIN input_types}}

C8_TableFixed ==
    [][pc = "ready" =>
        /\ func_dict' = func_dict
        /\ \A k \in 1..Len(last'.log) : last'.log[k].item \in TableItems
        /\ (last'.op \in {"fields_to_inputs", "inputs_to_fields"} =>
                /\ Len(objs') = Len(objs)
                /\ \A r \in 1..Len(objs) : r \notin TableItems => objs'[r] = objs[r])]_vars

C8_Witness ==
    /\ Writes /\ N >= 1 /\ Len(last.log) >= 1
    /\ \E k \in 1..Len(gui) :
        /\ gui[k].key = KeyOf(1)
        /\ gui[k].item # func_dict[1].item
        /\ objs[gui[k].item].val # inputs[KeyOf(1)]
    /\ \E k \in 1..Len(gui) : gui[k].key \notin Keys /\ gui[k].key[1] # "_"

\* C9: fields_to_inputs() changes no object of the heap and no holder
\* attribute whose name is not a key of the table; inputs_to_fields()
\* changes no holder attribute, the coercion fallback included.
C9_Frame ==
    [][/\ last'.op = "fields_to_inputs" =>
            /\ objs' = objs
            /\ \A n \in DOMAIN inputs : n \notin Keys => inputs'[n] = inputs[n]
       /\ last'.op = "inputs_to_fields" => inputs' = inputs]_vars

C9_Witness ==
    /\ Writes /\ N = 1
    /\ Coercible(1)
    /\ inputs[KeyOf(1)] = Str("True")
    /\ WidgetOf(objs, 1).val = PyBool("True")
    /\ \E n \in DOMAIN inputs : n \notin Keys /\ HasAttr(inputs, n)

====
